---- MODULE Spec2Model ----
(***************************************************************************)
(* Frame lifecycle of the Vulkan engine (src/vk_engine.h, vk_engine.cpp):  *)
(* the DeletionQueue, the double-buffered draw loop with its fences and    *)
(* semaphores, the swapchain and the init / run / cleanup lifecycle.       *)
(*                                                                         *)
(* Two specifications share the module:                                    *)
(*   SpecDQ  a single DeletionQueue driven by arbitrary push_function and  *)
(*           flush calls;                                                  *)
(*   Spec    the engine: init(), run() with draw() unfolded call by call,  *)
(*           cleanup(), and the GPU / presentation engine running          *)
(*           asynchronously beside the CPU thread.                         *)
(***************************************************************************)
EXTENDS Integers, Sequences, FiniteSets, TLC

\* ------------------------------------------------------------------ bounds
\* push_function calls made on the stand-alone queue of SpecDQ
MaxPush == 5
\* flush calls made on the stand-alone queue of SpecDQ
MaxFlush == 3
\* frames drawn by the engine (caps _frameNumber)
MaxFrames == 4
\* images the presentation layer puts in one swapchain
NumImages == 3
\* init() calls made by the host program
MaxInits == 2
\* cleanup() calls made by the host program
MaxCleanups == 2

\* ------------------------------------------------------- program constants
\* constexpr unsigned int FRAME_OVERLAP{ 2 }
FRAME_OVERLAP == 2

\* ------------------------------------------------------- DeletionQueue
VARIABLES
    deletors,      \* DeletionQueue::deletors, oldest first
    executed,      \* every deletor call made so far, in call order
    lastRun,       \* the calls made by the most recent flush, in call order
    nPushed,       \* number of push_function calls so far
    nFlushed,      \* number of flush calls so far
    prevMark,      \* nPushed at the flush before the most recent one
    lastMark       \* nPushed at the most recent flush

varsDQ == <<deletors, executed, lastRun, nPushed, nFlushed, prevMark, lastMark>>

\* deletors.push_back(function)
push_function(q, function) == Append(q, function)

\* the calls made while a reverse iterator walks from position it down to
\* rend (position 0): (*it)() and then it++
RECURSIVE flush_calls(_, _)
flush_calls(q, it) ==
    IF it = 0 THEN <<>> ELSE <<q[it]>> \o flush_calls(q, it - 1)

\* a flush that walks the deque front to back
flush_run_forward(q) == q

\* the calls flush() makes: from rbegin (the last element) to rend
flush_run(q) == flush_calls(q, Len(q))

\* a flush that forgets deletors.clear()
flush_after_noclear(q) == q

\* the deque flush() leaves behind: deletors.clear()
flush_after(q) == <<>>

\* ----------------------------------------------------------------- engine
VARIABLES
    pc,                    \* where the CPU thread is
    loadedEngine,          \* TRUE iff the global loadedEngine is non-null
    _isInitialized,
    _frameNumber,
    stop_rendering,
    bQuit,                 \* run()'s local flag
    _swapchain,            \* handle held in VulkanEngine::_swapchain
    _swapchainImages,      \* handles held in _swapchainImages
    _swapchainImageViews,  \* handles held in _swapchainImageViews
    _mainDeletionQueue,    \* deletors of the engine-wide queue
    _deletionQueue,        \* slot -> deletors of _frames[slot]._deletionQueue
    live,                  \* the objects that exist (created, not destroyed)
    destroyLog,            \* every destroy call made so far, in call order
    initCount,             \* init() calls so far; names the objects they make
    cleanupCount,          \* cleanup() calls so far
    fence,                 \* slot -> state of _frames[slot]._renderFence
    semaphore,             \* <<kind, slot>> -> TRUE iff signalled
    cmd,                   \* slot -> state of _frames[slot]._mainCommandBuffer
    recorded,              \* slot -> the commands recorded in that command buffer
    work,                  \* slot -> state of the slot's latest submission
    sub,                   \* slot -> what that submission waits on and signals
    img,                   \* image index -> "free" | "acquiring" | "ready"
    acq,                   \* image index -> semaphore its acquisition signals
    sig,                   \* image index -> semaphore the submission writing it signals
    rendered,              \* image index -> TRUE iff its rendering has completed
    presQ,                 \* present requests not yet processed, oldest first
    swapchainImageIndex,   \* draw()'s local
    waited,                \* slot whose fence wait succeeded in this draw()
    acquireResult          \* what vkAcquireNextImageKHR last returned

varsEngine ==
    <<pc, loadedEngine, _isInitialized, _frameNumber, stop_rendering, bQuit,
      _swapchain, _swapchainImages, _swapchainImageViews, _mainDeletionQueue,
      _deletionQueue, live, destroyLog, initCount, cleanupCount, fence,
      semaphore, cmd, recorded, work, sub, img, acq, sig, rendered, presQ,
      swapchainImageIndex, waited, acquireResult>>

\* ------------------------------------------------- one image under transitions
VARIABLES
    tiStart,       \* layout of the image before any transition ("none": no image yet)
    tiA,           \* layout A of the round trip
    tiB,           \* layout B of the round trip
    tiCmd,         \* the commands recorded so far
    tiDone,        \* how many of them the GPU has executed
    tiLayout       \* layout the image is in now

varsTI == <<tiStart, tiA, tiB, tiCmd, tiDone, tiLayout>>

vars == <<varsDQ, varsEngine, varsTI>>

\* what init() and cleanup() own
lifeVars ==
    <<loadedEngine, _isInitialized, _swapchain, _swapchainImages,
      _swapchainImageViews, _mainDeletionQueue, initCount, cleanupCount>>

Slots == 0 .. (FRAME_OVERLAP - 1)
Images == 0 .. (NumImages - 1)
SemIds == {"swapchain", "render"} \X Slots
NoSlot == FRAME_OVERLAP
NoImage == NumImages
NullHandle == <<"null", 0, 0>>
NoSem == <<"none", 0>>

\* an object made by the g-th init(): kind, incarnation, index
Handle(kind, g, i) == <<kind, g, i>>

\* FrameData& get_current_frame(): the index it selects
get_current_frame == _frameNumber % FRAME_OVERLAP

Range(q) == {q[k] : k \in 1 .. Len(q)}

RECURSIVE Flatten(_)
Flatten(qq) == IF qq = <<>> THEN <<>> ELSE Head(qq) \o Flatten(Tail(qq))

\* VK_CHECK(x): TRUE iff execution goes on past the macro; any other result
\* ends the process
VK_CHECK(err) == err = "VK_SUCCESS"

\* state of the engine object as constructed, before any call
InitEngine ==
    /\ pc = "main"
    /\ loadedEngine = FALSE
    /\ _isInitialized = FALSE
    /\ _frameNumber = 0
    /\ stop_rendering = FALSE
    /\ bQuit = FALSE
    /\ _swapchain = NullHandle
    /\ _swapchainImages = <<>>
    /\ _swapchainImageViews = <<>>
    /\ _mainDeletionQueue = <<>>
    /\ _deletionQueue = [s \in Slots |-> <<>>]
    /\ live = {}
    /\ destroyLog = <<>>
    /\ initCount = 0
    /\ cleanupCount = 0
    /\ fence = [s \in Slots |-> "none"]
    /\ semaphore = [x \in SemIds |-> FALSE]
    /\ cmd = [s \in Slots |-> "none"]
    /\ recorded = [s \in Slots |-> <<>>]
    /\ work = [s \in Slots |-> "none"]
    /\ sub = [s \in Slots |-> [wait |-> NoSem, signal |-> NoSem,
                                fence |-> NoSlot, image |-> NoImage]]
    /\ img = [i \in Images |-> "free"]
    /\ acq = [i \in Images |-> NoSem]
    /\ sig = [i \in Images |-> NoSem]
    /\ rendered = [i \in Images |-> FALSE]
    /\ presQ = <<>>
    /\ swapchainImageIndex = NoImage
    /\ waited = NoSlot
    /\ acquireResult = "none"

\* the process ends (abort() in VK_CHECK, a crash)
Abort ==
    /\ pc' = "aborted"
    /\ UNCHANGED <<varsDQ, varsTI, loadedEngine, _isInitialized, _frameNumber, stop_rendering,
                   bQuit, _swapchain, _swapchainImages, _swapchainImageViews,
                   _mainDeletionQueue, _deletionQueue, live, destroyLog,
                   initCount, cleanupCount, fence, semaphore, cmd, work, sub,
                   img, acq, sig, rendered, presQ, swapchainImageIndex, waited,
                   acquireResult, recorded>>

\* the ways the process ends early: abort() in VK_CHECK, a failed assert
Stopped == {"aborted", "assertFailed"}

\* an init() whose assertion never fires
init_assert_never == FALSE

\* assert(loadedEngine == nullptr) fails
init_assert_fails == loadedEngine

\* the failed assertion ends the process
AssertFailed ==
    /\ pc' = "assertFailed"
    /\ UNCHANGED <<varsDQ, varsTI, loadedEngine, _isInitialized, _frameNumber, stop_rendering,
                   bQuit, _swapchain, _swapchainImages, _swapchainImageViews,
                   _mainDeletionQueue, _deletionQueue, live, destroyLog,
                   initCount, cleanupCount, fence, semaphore, cmd, work, sub,
                   img, acq, sig, rendered, presQ, swapchainImageIndex, waited,
                   acquireResult, recorded>>

\* ---------------------------------------------------------------- init()
\* the handles create_swapchain stores: _swapchain, _swapchainImages,
\* _swapchainImageViews of the chain built by the g-th init()
create_swapchain(g) ==
    [swapchain |-> Handle("swapchain", g, 0),
     images |-> [i \in 1 .. NumImages |-> Handle("image", g, i - 1)],
     views |-> [i \in 1 .. NumImages |-> Handle("view", g, i - 1)]]

\* objects init_vulkan makes: instance, messenger, surface, device, allocator
init_vulkan_objects(g) ==
    {Handle(k, g, 0) :
        k \in {"instance", "debugMessenger", "surface", "device", "allocator"}}

\* objects init_swapchain makes besides the chain: the draw image and its view
init_swapchain_objects(g) ==
    {Handle("drawImage", g, 0), Handle("drawImageView", g, 0)}

\* objects init_commands makes: one pool (with its buffer) per frame
init_commands_objects(g) == {Handle("commandPool", g, s) : s \in Slots}

\* objects init_sync_structures makes: a fence and two semaphores per frame
init_sync_objects(g) ==
    {Handle(k, g, s) :
        k \in {"renderFence", "swapchainSemaphore", "renderSemaphore"},
        s \in Slots}

\* VulkanEngine::init
init ==
    /\ pc = "main"
    /\ initCount < MaxInits
    /\ IF init_assert_fails
         THEN AssertFailed
         ELSE LET g == initCount + 1
                  sc == create_swapchain(g)
              IN  /\ loadedEngine' = TRUE
                  /\ initCount' = g
                  /\ _swapchain' = sc.swapchain
                  /\ _swapchainImages' = sc.images
                  /\ _swapchainImageViews' = sc.views
                  /\ live' = live \cup {Handle("window", g, 0)}
                               \cup init_vulkan_objects(g)
                               \cup {sc.swapchain} \cup Range(sc.images)
                               \cup Range(sc.views)
                               \cup init_swapchain_objects(g)
                               \cup init_commands_objects(g)
                               \cup init_sync_objects(g)
                  /\ _mainDeletionQueue' =
                        push_function(
                            push_function(_mainDeletionQueue, "vmaDestroyAllocator"),
                            "destroyDrawImage")
                  /\ fence' = [s \in Slots |-> "signaled"]
                  /\ semaphore' = [x \in SemIds |-> FALSE]
                  /\ cmd' = [s \in Slots |-> "initial"]
                  /\ recorded' = [s \in Slots |-> <<>>]
                  /\ work' = [s \in Slots |-> "none"]
                  /\ img' = [i \in Images |-> "free"]
                  /\ acq' = [i \in Images |-> NoSem]
                  /\ sig' = [i \in Images |-> NoSem]
                  /\ rendered' = [i \in Images |-> FALSE]
                  /\ presQ' = <<>>
                  /\ _isInitialized' = TRUE
                  /\ pc' = "main"
                  /\ UNCHANGED <<varsDQ, varsTI, _frameNumber, stop_rendering, bQuit,
                                 _deletionQueue, destroyLog, cleanupCount, sub,
                                 swapchainImageIndex, waited, acquireResult>>

\* ------------------------------------------------------------- cleanup()
\* a draw-image deletor that frees the image before its view
deletor_calls_image_first(d, g) ==
    IF d = "vmaDestroyAllocator" THEN <<Handle("allocator", g, 0)>>
    ELSE IF d = "destroyDrawImage"
         THEN <<Handle("drawImage", g, 0), Handle("drawImageView", g, 0)>>
         ELSE <<>>

\* the destroy calls one deletor of the engine makes, in call order; the
\* lambdas read the engine's members when they run
deletor_calls(d, g) ==
    IF d = "vmaDestroyAllocator" THEN <<Handle("allocator", g, 0)>>
    ELSE IF d = "destroyDrawImage"
         THEN <<Handle("drawImageView", g, 0), Handle("drawImage", g, 0)>>
         ELSE <<>>

\* the destroy calls a flush of queue q makes, in call order
flush_destroys(q, g) ==
    Flatten([k \in 1 .. Len(flush_run(q)) |-> deletor_calls(flush_run(q)[k], g)])

\* a destroy_swapchain whose loop stops one view short
destroy_swapchain_short ==
    <<_swapchain>> \o SubSeq(_swapchainImageViews, 1, Len(_swapchainImageViews) - 1)

\* the destroy calls destroy_swapchain makes, in call order:
\* vkDestroySwapchainKHR, then vkDestroyImageView for each stored view
destroy_swapchain == <<_swapchain>> \o _swapchainImageViews

\* the destroy calls of cleanup's per-frame loop body for frame i
cleanup_frame(i, g) ==
    <<Handle("commandPool", g, i), Handle("renderFence", g, i),
      Handle("renderSemaphore", g, i), Handle("swapchainSemaphore", g, i)>>
    \o flush_destroys(_deletionQueue[i], g)

\* every destroy call of cleanup's guarded block, in call order
cleanup_calls(g) ==
    Flatten([k \in 1 .. FRAME_OVERLAP |-> cleanup_frame(k - 1, g)])
    \o flush_destroys(_mainDeletionQueue, g)
    \o destroy_swapchain
    \o <<Handle("surface", g, 0), Handle("device", g, 0),
         Handle("debugMessenger", g, 0), Handle("instance", g, 0),
         Handle("window", g, 0)>>

\* a cleanup that does not wait for the device
DeviceIdle_nowait == TRUE

\* vkDeviceWaitIdle returns once no queue operation is outstanding
DeviceIdle ==
    /\ \A s \in Slots : work[s] \notin {"queued", "executing"}
    /\ presQ = <<>>

\* VulkanEngine::cleanup
cleanup ==
    /\ pc = "main"
    /\ cleanupCount < MaxCleanups
    /\ cleanupCount' = cleanupCount + 1
    /\ UNCHANGED <<varsDQ, varsTI>>
    /\ IF _isInitialized
         THEN LET calls == cleanup_calls(initCount)
                  \* the images belong to the chain and go with it
                  gone == Range(calls) \cup
                          (IF _swapchain \in Range(calls)
                              THEN Range(_swapchainImages) ELSE {})
              IN  /\ DeviceIdle
                  /\ destroyLog' = destroyLog \o calls
                  /\ live' = live \ gone
                  /\ _mainDeletionQueue' = flush_after(_mainDeletionQueue)
                  /\ _deletionQueue' =
                        [s \in Slots |-> flush_after(_deletionQueue[s])]
                  /\ fence' = [s \in Slots |-> "none"]
                  /\ semaphore' = [x \in SemIds |-> FALSE]
                  /\ cmd' = [s \in Slots |-> "none"]
                  /\ recorded' = [s \in Slots |-> <<>>]
                  /\ work' = [s \in Slots |-> "none"]
                  /\ img' = [i \in Images |-> "free"]
                  /\ acq' = [i \in Images |-> NoSem]
                  /\ sig' = [i \in Images |-> NoSem]
                  /\ rendered' = [i \in Images |-> FALSE]
                  /\ loadedEngine' = FALSE
                  \* a destroy call on an object that no longer exists is
                  \* undefined: the process may crash there or go on
                  /\ \/ pc' = "main"
                     \/ /\ ~(Range(calls) \subseteq live)
                        /\ pc' = "aborted"
                  /\ UNCHANGED <<_isInitialized, _frameNumber, stop_rendering,
                                 bQuit, _swapchain, _swapchainImages,
                                 _swapchainImageViews, initCount, sub, presQ,
                                 swapchainImageIndex, waited, acquireResult>>
         ELSE /\ loadedEngine' = FALSE
              /\ UNCHANGED <<pc, _isInitialized, _frameNumber, stop_rendering,
                             bQuit, _swapchain, _swapchainImages,
                             _swapchainImageViews, _mainDeletionQueue,
                             _deletionQueue, live, destroyLog, initCount, fence,
                             semaphore, cmd, work, sub, img, acq, sig, rendered,
                             presQ, swapchainImageIndex, waited, acquireResult, recorded>>

\* ------------------------------------------------------------------ run()
\* what SDL_PollEvent can deliver
Events ==
    {"SDL_QUIT", "SDL_WINDOWEVENT_MINIMIZED", "SDL_WINDOWEVENT_RESTORED",
     "SDLK_SPACE", "SDLK_ESCAPE", "other"}

\* the host program calls run() on an initialized engine
run ==
    /\ pc = "main"
    /\ _isInitialized
    /\ Handle("device", initCount, 0) \in live
    /\ bQuit' = FALSE
    /\ pc' = "loop"
    /\ UNCHANGED <<varsDQ, varsTI, lifeVars, _frameNumber, stop_rendering, _deletionQueue, live,
                   destroyLog, fence, semaphore, cmd, work, sub, img, acq, sig,
                   rendered, presQ, swapchainImageIndex, waited, acquireResult, recorded>>

\* a loop that goes on whatever bQuit says
run_continues_always == TRUE

\* the loop condition: !bQuit
run_continues == ~bQuit

\* while (!bQuit): the test at the head of the loop; run() returns when it
\* fails
run_Loop ==
    /\ pc = "loop"
    /\ pc' = IF run_continues THEN "poll" ELSE "main"
    /\ UNCHANGED <<varsDQ, varsTI, lifeVars, _frameNumber, stop_rendering, bQuit,
                   _deletionQueue, live, destroyLog, fence, semaphore, cmd,
                   work, sub, img, acq, sig, rendered, presQ, swapchainImageIndex,
                   waited, acquireResult, recorded>>

\* one event taken from the queue and handled by the inner loop's body
run_PollEvent ==
    /\ pc = "poll"
    /\ \E e \in Events :
        /\ bQuit' = IF e \in {"SDL_QUIT", "SDLK_ESCAPE"} THEN TRUE ELSE bQuit
        /\ stop_rendering' =
              IF e = "SDL_WINDOWEVENT_MINIMIZED" THEN TRUE
              ELSE IF e = "SDL_WINDOWEVENT_RESTORED" THEN FALSE
              ELSE stop_rendering
    /\ UNCHANGED <<varsDQ, varsTI, pc, lifeVars, _frameNumber, _deletionQueue, live, destroyLog,
                   fence, semaphore, cmd, work, sub, img, acq, sig, rendered, presQ,
                   swapchainImageIndex, waited, acquireResult, recorded>>

\* SDL_PollEvent returns 0: the inner loop ends
run_PollEmpty ==
    /\ pc = "poll"
    /\ pc' = "check"
    /\ UNCHANGED <<varsDQ, varsTI, lifeVars, _frameNumber, stop_rendering, bQuit,
                   _deletionQueue, live, destroyLog, fence, semaphore, cmd,
                   work, sub, img, acq, sig, rendered, presQ, swapchainImageIndex,
                   waited, acquireResult, recorded>>

\* a run() that draws whether or not rendering is suspended
run_skips_draw_never == FALSE

\* if (stop_rendering)
run_skips_draw == stop_rendering

\* sleep_for(100ms); continue;
run_Suspended ==
    /\ pc = "check"
    /\ run_skips_draw
    /\ pc' = "loop"
    /\ UNCHANGED <<varsDQ, varsTI, lifeVars, _frameNumber, stop_rendering, bQuit,
                   _deletionQueue, live, destroyLog, fence, semaphore, cmd,
                   work, sub, img, acq, sig, rendered, presQ, swapchainImageIndex,
                   waited, acquireResult, recorded>>

\* draw() is called
run_CallDraw ==
    /\ pc = "check"
    /\ ~run_skips_draw
    /\ _frameNumber < MaxFrames
    /\ pc' = "wait"
    /\ UNCHANGED <<varsDQ, varsTI, lifeVars, _frameNumber, stop_rendering, bQuit,
                   _deletionQueue, live, destroyLog, fence, semaphore, cmd,
                   work, sub, img, acq, sig, rendered, presQ, swapchainImageIndex,
                   waited, acquireResult, recorded>>

\* ----------------------------------------------------------------- draw()
\* what a Vulkan call that involves no waiting can return: success, or an
\* error such as running out of memory
CallResults == {"VK_SUCCESS", "VK_ERROR_OUT_OF_DEVICE_MEMORY"}

\* a wait that returns success whether or not the fence is signalled
WaitForFences_always(s) == {"VK_SUCCESS", "VK_ERROR_DEVICE_LOST"}

\* a wait for the fences of every frame
WaitForFences_allSlots(s) ==
    IF \A t \in Slots : fence[t] = "signaled"
        THEN {"VK_SUCCESS", "VK_ERROR_DEVICE_LOST"}
        ELSE {"VK_TIMEOUT", "VK_ERROR_DEVICE_LOST"}

\* what vkWaitForFences(fence of slot s, 1 s) can return: success once the
\* fence is signalled, a timeout while it is not
WaitForFences(s) ==
    IF fence[s] = "signaled"
        THEN {"VK_SUCCESS", "VK_ERROR_DEVICE_LOST"}
        ELSE {"VK_TIMEOUT", "VK_ERROR_DEVICE_LOST"}

\* a wait whose result is not checked
draw_WaitFence_unchecked ==
    /\ pc = "wait"
    /\ \E r \in WaitForFences(get_current_frame) :
        /\ pc' = "flush"
        /\ waited' = IF VK_CHECK(r) THEN get_current_frame ELSE NoSlot
        /\ UNCHANGED <<varsDQ, varsTI, lifeVars, _frameNumber, stop_rendering, bQuit,
                       _deletionQueue, live, destroyLog, fence, semaphore, cmd,
                       work, sub, img, acq, sig, rendered, presQ,
                       swapchainImageIndex, acquireResult, recorded>>

\* VK_CHECK(vkWaitForFences(_device, 1, &get_current_frame()._renderFence, ...))
draw_WaitFence ==
    /\ pc = "wait"
    /\ \E r \in WaitForFences(get_current_frame) :
        IF VK_CHECK(r)
            THEN /\ pc' = "flush"
                 /\ waited' = get_current_frame
                 /\ UNCHANGED <<varsDQ, varsTI, lifeVars, _frameNumber, stop_rendering, bQuit,
                                _deletionQueue, live, destroyLog, fence,
                                semaphore, cmd, work, sub, img, acq, sig, rendered,
                                presQ, swapchainImageIndex, acquireResult, recorded>>
            ELSE Abort

\* a draw() that flushes the engine-wide queue with the slot's queue
draw_Flush_main ==
    /\ pc = "flush"
    /\ LET s == get_current_frame
           calls == flush_destroys(_deletionQueue[s], initCount)
                    \o flush_destroys(_mainDeletionQueue, initCount)
       IN  /\ destroyLog' = destroyLog \o calls
           /\ live' = live \ Range(calls)
           /\ _deletionQueue' =
                 [_deletionQueue EXCEPT ![s] = flush_after(_deletionQueue[s])]
           /\ _mainDeletionQueue' = flush_after(_mainDeletionQueue)
    /\ pc' = "resetFence"
    /\ UNCHANGED <<varsDQ, varsTI, loadedEngine, _isInitialized, _swapchain,
                   _swapchainImages, _swapchainImageViews, initCount,
                   cleanupCount, _frameNumber, stop_rendering, bQuit, fence,
                   semaphore, cmd, work, sub, img, acq, sig, rendered, presQ,
                   swapchainImageIndex, waited, acquireResult, recorded>>

\* get_current_frame()._deletionQueue.flush()
draw_Flush ==
    /\ pc = "flush"
    /\ LET s == get_current_frame
           calls == flush_destroys(_deletionQueue[s], initCount)
       IN  /\ destroyLog' = destroyLog \o calls
           /\ live' = live \ Range(calls)
           /\ _deletionQueue' =
                 [_deletionQueue EXCEPT ![s] = flush_after(_deletionQueue[s])]
    /\ pc' = "resetFence"
    /\ UNCHANGED <<varsDQ, varsTI, lifeVars, _frameNumber, stop_rendering, bQuit, fence,
                   semaphore, cmd, work, sub, img, acq, sig, rendered, presQ,
                   swapchainImageIndex, waited, acquireResult, recorded>>

\* VK_CHECK(vkResetFences(_device, 1, &get_current_frame()._renderFence))
draw_ResetFences ==
    /\ pc = "resetFence"
    /\ \E r \in CallResults :
        IF VK_CHECK(r)
            THEN /\ fence' = [fence EXCEPT ![get_current_frame] = "unsignaled"]
                 /\ pc' = "acquire"
                 /\ UNCHANGED <<varsDQ, varsTI, lifeVars, _frameNumber, stop_rendering, bQuit,
                                _deletionQueue, live, destroyLog, semaphore, cmd, work, sub,
                                img, acq, sig, rendered, presQ, swapchainImageIndex, waited,
                                acquireResult, recorded>>
            ELSE Abort

\* the image an acquisition hands out. Which free image it is, is up to the
\* presentation engine; free images are interchangeable (nothing reads what
\* is left of their earlier use), so the lowest free index stands for all
FreeImage(i) == img[i] = "free" /\ \A j \in Images : j < i => img[j] # "free"

\* what vkAcquireNextImageKHR(.., 1 s, ..) can return, with the index it
\* hands out (NoImage when it hands out none)
AcquireNextImage ==
    {<<r, i>> \in {"VK_SUCCESS", "VK_SUBOPTIMAL_KHR"} \X Images : FreeImage(i)}
    \cup {<<"VK_ERROR_OUT_OF_DATE_KHR", NoImage>>}
    \cup (IF \A i \in Images : img[i] # "free"
             THEN {<<"VK_TIMEOUT", NoImage>>} ELSE {})

\* an acquisition that is tried again after a timeout
acquire_then_retry(r) ==
    IF r = "VK_TIMEOUT" THEN "acquire"
    ELSE IF VK_CHECK(r) THEN "resetCmd" ELSE "aborted"

\* where draw() goes after VK_CHECK(vkAcquireNextImageKHR(..)) returned r
acquire_then(r) == IF VK_CHECK(r) THEN "resetCmd" ELSE "aborted"

\* an acquisition that signals the semaphore of the other frame
acquire_semaphore_otherSlot == <<"swapchain", (get_current_frame + 1) % FRAME_OVERLAP>>

\* the semaphore the acquisition signals: get_current_frame()._swapchainSemaphore
acquire_semaphore == <<"swapchain", get_current_frame>>

\* VK_CHECK(vkAcquireNextImageKHR(_device, _swapchain, 1000000000,
\*          get_current_frame()._swapchainSemaphore, nullptr, &swapchainImageIndex))
draw_Acquire ==
    /\ pc = "acquire"
    /\ \E ri \in AcquireNextImage :
        LET r == ri[1]
            i == ri[2]
        IN  /\ acquireResult' = r
            /\ IF i # NoImage
                 THEN /\ img' = [img EXCEPT ![i] = "acquiring"]
                      /\ acq' = [acq EXCEPT ![i] = acquire_semaphore]
                      /\ sig' = [sig EXCEPT ![i] = NoSem]
                      /\ rendered' = [rendered EXCEPT ![i] = FALSE]
                      /\ swapchainImageIndex' = i
                 ELSE UNCHANGED <<img, acq, sig, rendered, swapchainImageIndex>>
            /\ pc' = acquire_then(r)
    /\ UNCHANGED <<varsDQ, varsTI, lifeVars, _frameNumber, stop_rendering, bQuit,
                   _deletionQueue, live, destroyLog, fence, semaphore, cmd,
                   work, sub, presQ, waited, recorded>>

\* VK_CHECK(vkResetCommandBuffer(cmdBuff, 0))
draw_ResetCmd ==
    /\ pc = "resetCmd"
    /\ \E r \in CallResults :
        IF VK_CHECK(r)
            THEN /\ cmd' = [cmd EXCEPT ![get_current_frame] = "initial"]
                 /\ recorded' = [recorded EXCEPT ![get_current_frame] = <<>>]
                 /\ pc' = "begin"
                 /\ UNCHANGED <<varsDQ, varsTI, lifeVars, _frameNumber, stop_rendering, bQuit,
                                _deletionQueue, live, destroyLog, fence, semaphore, work,
                                sub, img, acq, sig, rendered, presQ, swapchainImageIndex, waited,
                                acquireResult>>
            ELSE Abort

\* VK_CHECK(vkBeginCommandBuffer(cmdBuff, &cmdBuffBeginInfo))
draw_Begin ==
    /\ pc = "begin"
    /\ \E r \in CallResults :
        IF VK_CHECK(r)
            THEN /\ cmd' = [cmd EXCEPT ![get_current_frame] = "recording"]
                 /\ pc' = "record"
                 /\ UNCHANGED <<varsDQ, varsTI, lifeVars, _frameNumber, stop_rendering, bQuit,
                                _deletionQueue, live, destroyLog, fence, semaphore, work,
                                sub, img, acq, sig, rendered, presQ, swapchainImageIndex, waited,
                                acquireResult, recorded>>
            ELSE Abort

\* the layouts an image can be in or be taken to
Layouts ==
    {"UNDEFINED", "GENERAL", "TRANSFER_SRC_OPTIMAL", "TRANSFER_DST_OPTIMAL",
     "PRESENT_SRC_KHR"}

\* a command in a command buffer: a layout barrier on image (old -> new), a
\* clear of image that names the layout it is in, or a copy from image to
\* image2
Command(op, image, image2, old, new) ==
    [op |-> op, image |-> image, image2 |-> image2, old |-> old, new |-> new]

\* a transition recorded with its two layouts the wrong way round
transition_image_swapped(cmdBuff, image, currentLayout, newLayout) ==
    Append(cmdBuff, Command("barrier", image, NullHandle, newLayout, currentLayout))

\* vkutil::transition_image(cmd, image, currentLayout, newLayout): records
\* one barrier on the image from currentLayout to newLayout
transition_image(cmdBuff, image, currentLayout, newLayout) ==
    Append(cmdBuff, Command("barrier", image, NullHandle, currentLayout, newLayout))

\* vkutil::copy_image_to_image(cmd, source, destination, ..): records one
\* copy, which reads source as a transfer source and writes destination as
\* a transfer destination
copy_image_to_image(cmdBuff, source, destination) ==
    Append(cmdBuff, Command("copy", source, destination,
                            "TRANSFER_SRC_OPTIMAL", "TRANSFER_DST_OPTIMAL"))

\* draw_background: vkCmdClearColorImage(cmdBuff, _drawImage.image,
\* VK_IMAGE_LAYOUT_GENERAL, ..)
draw_background(cmdBuff, drawImage) ==
    Append(cmdBuff, Command("clear", drawImage, NullHandle, "GENERAL", "GENERAL"))

\* the layout the GPU leaves an image in when it executes a barrier old ->
\* new on an image that is in layout cur. UNDEFINED as old accepts any
\* layout (the contents are given up); UNDEFINED is no valid new layout, and
\* an old layout the image is not in is a wrong "current" argument: what the
\* image is left in after either is undefined
barrier_result(cur, old, new) ==
    IF new = "UNDEFINED" THEN Layouts
    ELSE IF old = "UNDEFINED" \/ old = cur THEN {new}
    ELSE Layouts

\* _drawImage.image
DrawImage == Handle("drawImage", initCount, 0)

\* a recording whose copy reads the draw image while it is still in the
\* general layout
draw_commands_no_src ==
    LET sc == _swapchainImages[swapchainImageIndex + 1]
        c1 == transition_image(<<>>, DrawImage, "UNDEFINED", "GENERAL")
        c2 == draw_background(c1, DrawImage)
        c4 == transition_image(c2, sc, "UNDEFINED", "TRANSFER_DST_OPTIMAL")
        c5 == copy_image_to_image(c4, DrawImage, sc)
    IN  transition_image(c5, sc, "TRANSFER_DST_OPTIMAL", "PRESENT_SRC_KHR")

\* what draw() records between vkBeginCommandBuffer and vkEndCommandBuffer
draw_commands ==
    LET sc == _swapchainImages[swapchainImageIndex + 1]
        c1 == transition_image(<<>>, DrawImage, "UNDEFINED", "GENERAL")
        c2 == draw_background(c1, DrawImage)
        c3 == transition_image(c2, DrawImage, "GENERAL", "TRANSFER_SRC_OPTIMAL")
        c4 == transition_image(c3, sc, "UNDEFINED", "TRANSFER_DST_OPTIMAL")
        c5 == copy_image_to_image(c4, DrawImage, sc)
    IN  transition_image(c5, sc, "TRANSFER_DST_OPTIMAL", "PRESENT_SRC_KHR")

\* the transitions, the clear and the copy recorded into cmdBuff
draw_Record ==
    /\ pc = "record"
    /\ recorded' = [recorded EXCEPT ![get_current_frame] = draw_commands]
    /\ pc' = "end"
    /\ UNCHANGED <<varsDQ, varsTI, lifeVars, _frameNumber, stop_rendering, bQuit,
                   _deletionQueue, live, destroyLog, fence, semaphore, cmd,
                   work, sub, img, acq, sig, rendered, presQ, swapchainImageIndex,
                   waited, acquireResult>>

\* VK_CHECK(vkEndCommandBuffer(cmdBuff))
draw_End ==
    /\ pc = "end"
    /\ \E r \in CallResults :
        IF VK_CHECK(r)
            THEN /\ cmd' = [cmd EXCEPT ![get_current_frame] = "executable"]
                 /\ pc' = "submit"
                 /\ UNCHANGED <<varsDQ, varsTI, lifeVars, _frameNumber, stop_rendering, bQuit,
                                _deletionQueue, live, destroyLog, fence, semaphore, work,
                                sub, img, acq, sig, rendered, presQ, swapchainImageIndex, waited,
                                acquireResult, recorded>>
            ELSE Abort

\* a submission that waits on the render semaphore of the frame
submit_waitInfo_render == <<"render", get_current_frame>>

\* waitInfo: semaphore_submit_info(.., get_current_frame()._swapchainSemaphore)
submit_waitInfo == <<"swapchain", get_current_frame>>

\* signalInfo: semaphore_submit_info(.., get_current_frame()._renderSemaphore)
submit_signalInfo == <<"render", get_current_frame>>

\* a submission with no fence (VK_NULL_HANDLE)
submit_fence_null == NoSlot

\* a submission tied to the fence of the other frame
submit_fence_otherSlot == (get_current_frame + 1) % FRAME_OVERLAP

\* the fence handed to vkQueueSubmit2: get_current_frame()._renderFence
submit_fence == get_current_frame

\* VK_CHECK(vkQueueSubmit2(_graphicsQueue, 1, &submit, get_current_frame()._renderFence))
draw_Submit ==
    /\ pc = "submit"
    /\ \E r \in CallResults \cup {"VK_ERROR_DEVICE_LOST"} :
        IF VK_CHECK(r)
            THEN /\ work' = [work EXCEPT ![get_current_frame] = "queued"]
                 /\ sub' = [sub EXCEPT ![get_current_frame] =
                              [wait |-> submit_waitInfo,
                               signal |-> submit_signalInfo,
                               fence |-> submit_fence,
                               image |-> swapchainImageIndex]]
                 /\ cmd' = [cmd EXCEPT ![get_current_frame] = "pending"]
                 /\ sig' = [sig EXCEPT ![swapchainImageIndex] = submit_signalInfo]
                 /\ pc' = "present"
                 /\ UNCHANGED <<varsDQ, varsTI, lifeVars, _frameNumber, stop_rendering, bQuit,
                                _deletionQueue, live, destroyLog, fence,
                                semaphore, img, acq, rendered, presQ,
                                swapchainImageIndex, waited, acquireResult, recorded>>
            ELSE Abort

\* a present request that waits on the image-acquired semaphore
present_waitSemaphore_swapchain == <<"swapchain", get_current_frame>>

\* presentInfo.pWaitSemaphores = &get_current_frame()._renderSemaphore
present_waitSemaphore == <<"render", get_current_frame>>

\* a present request for the image before the acquired one
present_imageIndex_previous == (swapchainImageIndex + NumImages - 1) % NumImages

\* presentInfo.pImageIndices = &swapchainImageIndex
present_imageIndex == swapchainImageIndex

\* VK_CHECK(vkQueuePresentKHR(_graphicsQueue, &presentInfo)): the request is
\* queued unless the call fails outright
draw_Present ==
    /\ pc = "present"
    /\ \E r \in {"VK_SUCCESS", "VK_SUBOPTIMAL_KHR", "VK_ERROR_OUT_OF_DATE_KHR",
                  "VK_ERROR_DEVICE_LOST"} :
        /\ presQ' = IF r \in {"VK_SUCCESS", "VK_SUBOPTIMAL_KHR"}
                       THEN Append(presQ, [image |-> present_imageIndex,
                                           wait |-> present_waitSemaphore])
                       ELSE presQ
        /\ pc' = IF VK_CHECK(r) THEN "incr" ELSE "aborted"
    /\ UNCHANGED <<varsDQ, varsTI, lifeVars, _frameNumber, stop_rendering, bQuit,
                   _deletionQueue, live, destroyLog, fence, semaphore, cmd,
                   work, sub, img, acq, sig, rendered, swapchainImageIndex, waited,
                   acquireResult, recorded>>

\* a draw() that counts every frame twice
draw_Incr_twice ==
    /\ pc = "incr"
    /\ _frameNumber' = _frameNumber + 2
    /\ swapchainImageIndex' = NoImage
    /\ waited' = NoSlot
    /\ pc' = "loop"
    /\ UNCHANGED <<varsDQ, varsTI, lifeVars, stop_rendering, bQuit, _deletionQueue,
                   live, destroyLog, fence, semaphore, cmd, work, sub, img, acq,
                   sig, rendered, presQ, acquireResult, recorded>>

\* _frameNumber++, and draw() returns to run()'s loop
draw_Incr ==
    /\ pc = "incr"
    /\ _frameNumber' = _frameNumber + 1
    /\ swapchainImageIndex' = NoImage
    /\ waited' = NoSlot
    /\ pc' = "loop"
    /\ UNCHANGED <<varsDQ, varsTI, lifeVars, stop_rendering, bQuit, _deletionQueue, live,
                   destroyLog, fence, semaphore, cmd, work, sub, img, acq, sig,
                   rendered, presQ, acquireResult, recorded>>

\* --------------------------------------------- GPU and presentation engine
\* the queue starts a submission once the semaphore it waits on is signalled,
\* which unsignals that semaphore
GPU_Start(s) ==
    /\ pc \notin Stopped
    /\ work[s] = "queued"
    /\ semaphore[sub[s].wait]
    /\ semaphore' = [semaphore EXCEPT ![sub[s].wait] = FALSE]
    /\ work' = [work EXCEPT ![s] = "executing"]
    /\ UNCHANGED <<varsDQ, varsTI, pc, lifeVars, _frameNumber, stop_rendering, bQuit,
                   _deletionQueue, live, destroyLog, fence, cmd, sub, img, acq, sig,
                   rendered, presQ, swapchainImageIndex, waited, acquireResult, recorded>>

\* the submission completes: its image is written, its semaphore and its
\* fence are signalled, its one-time-submit command buffer is spent
GPU_Finish(s) ==
    /\ pc \notin Stopped
    /\ work[s] = "executing"
    /\ work' = [work EXCEPT ![s] = "done"]
    /\ fence' = [fence EXCEPT ![sub[s].fence] = "signaled"]
    /\ semaphore' = [semaphore EXCEPT ![sub[s].signal] = TRUE]
    /\ rendered' = [rendered EXCEPT ![sub[s].image] = TRUE]
    /\ cmd' = [cmd EXCEPT ![s] = IF cmd[s] = "pending" THEN "invalid" ELSE cmd[s]]
    /\ UNCHANGED <<varsDQ, varsTI, pc, lifeVars, _frameNumber, stop_rendering, bQuit,
                   _deletionQueue, live, destroyLog, sub, img, acq, sig, presQ,
                   swapchainImageIndex, waited, acquireResult, recorded>>

\* the presentation engine lets go of an acquired image: the image becomes
\* available and the semaphore given to the acquisition is signalled
PE_ImageReady(i) ==
    /\ pc \notin Stopped
    /\ img[i] = "acquiring"
    /\ img' = [img EXCEPT ![i] = "ready"]
    /\ semaphore' = [semaphore EXCEPT ![acq[i]] = TRUE]
    /\ UNCHANGED <<varsDQ, varsTI, pc, lifeVars, _frameNumber, stop_rendering, bQuit,
                   _deletionQueue, live, destroyLog, fence, cmd, work, sub, acq, sig,
                   rendered, presQ, swapchainImageIndex, waited, acquireResult, recorded>>

\* the oldest present request is processed once the semaphore it waits on is
\* signalled (requests are processed in issue order); the image goes back to
\* the presentation engine
PE_Present ==
    /\ pc \notin Stopped
    /\ presQ # <<>>
    /\ semaphore[Head(presQ).wait]
    /\ semaphore' = [semaphore EXCEPT ![Head(presQ).wait] = FALSE]
    /\ img' = [img EXCEPT ![Head(presQ).image] = "free"]
    /\ presQ' = Tail(presQ)
    /\ UNCHANGED <<varsDQ, varsTI, pc, lifeVars, _frameNumber, stop_rendering, bQuit,
                   _deletionQueue, live, destroyLog, fence, cmd, work, sub, acq, sig,
                   rendered, swapchainImageIndex, waited, acquireResult, recorded>>

\* ------------------------------------------- a DeletionQueue on its own
\* a queue as constructed: empty
InitDQ ==
    /\ deletors = <<>>
    /\ executed = <<>>
    /\ lastRun = <<>>
    /\ nPushed = 0
    /\ nFlushed = 0
    /\ prevMark = 0
    /\ lastMark = 0

\* DeletionQueue::push_function; the n-th pushed deletor is named n
DQ_push ==
    /\ nPushed < MaxPush
    /\ deletors' = push_function(deletors, nPushed + 1)
    /\ nPushed' = nPushed + 1
    /\ UNCHANGED <<executed, lastRun, nFlushed, prevMark, lastMark>>
    /\ UNCHANGED <<varsEngine, varsTI>>

\* DeletionQueue::flush
DQ_flush ==
    /\ nFlushed < MaxFlush
    /\ lastRun' = flush_run(deletors)
    /\ executed' = executed \o flush_run(deletors)
    /\ deletors' = flush_after(deletors)
    /\ nFlushed' = nFlushed + 1
    /\ prevMark' = lastMark
    /\ lastMark' = nPushed
    /\ UNCHANGED nPushed
    /\ UNCHANGED <<varsEngine, varsTI>>

NextDQ == DQ_push \/ DQ_flush

\* --------------------------------------- transitions of one image, on their own
\* no image yet
InitTI ==
    /\ tiStart = "none"
    /\ tiA = "none"
    /\ tiB = "none"
    /\ tiCmd = <<>>
    /\ tiDone = 0
    /\ tiLayout = "none"

\* an image in some layout, and the two layouts of the round trip
TI_Image ==
    /\ tiStart = "none"
    /\ \E l \in Layouts, a \in Layouts, b \in Layouts :
        /\ tiStart' = l
        /\ tiLayout' = l
        /\ tiA' = a
        /\ tiB' = b
    /\ UNCHANGED <<tiCmd, tiDone, varsDQ, varsEngine>>

\* transition_image(cmd, img, A, B), and after it transition_image(cmd, img, B, A)
TI_Transition ==
    /\ tiStart # "none"
    /\ Len(tiCmd) < 2
    /\ tiCmd' = IF tiCmd = <<>>
                   THEN transition_image(tiCmd, "img", tiA, tiB)
                   ELSE transition_image(tiCmd, "img", tiB, tiA)
    /\ UNCHANGED <<tiStart, tiA, tiB, tiDone, tiLayout, varsDQ, varsEngine>>

\* the GPU executes the next recorded barrier
TI_Execute ==
    /\ tiDone < Len(tiCmd)
    /\ \E l \in barrier_result(tiLayout, tiCmd[tiDone + 1].old,
                                 tiCmd[tiDone + 1].new) :
        tiLayout' = l
    /\ tiDone' = tiDone + 1
    /\ UNCHANGED <<tiStart, tiA, tiB, tiCmd, varsDQ, varsEngine>>

NextTI == TI_Image \/ TI_Transition \/ TI_Execute

\* ------------------------------------------------------- specifications
NextEngine ==
    \/ init
    \/ run
    \/ cleanup
    \/ run_Loop
    \/ run_PollEvent
    \/ run_PollEmpty
    \/ run_Suspended
    \/ run_CallDraw
    \/ draw_WaitFence
    \/ draw_Flush
    \/ draw_ResetFences
    \/ draw_Acquire
    \/ draw_ResetCmd
    \/ draw_Begin
    \/ draw_Record
    \/ draw_End
    \/ draw_Submit
    \/ draw_Present
    \/ draw_Incr
    \/ \E s \in Slots : GPU_Start(s)
    \/ \E s \in Slots : GPU_Finish(s)
    \/ \E i \in Images : PE_ImageReady(i)
    \/ PE_Present

Init == InitDQ /\ InitEngine /\ InitTI

Next == NextEngine

\* the engine
Spec == Init /\ [][Next]_vars

\* a step of the device: a submission is started or completed, or an
\* acquired image becomes available
DeviceProgress ==
    \/ \E s \in Slots : GPU_Start(s) \/ GPU_Finish(s)
    \/ \E i \in Images : PE_ImageReady(i)

\* the engine on a device that makes progress: as long as a submission can
\* be started or completed or an acquired image can become available, one of
\* these eventually happens. Nothing is assumed about the CPU or about the
\* processing of present requests.
SpecLive == Init /\ [][Next]_vars /\ WF_vars(DeviceProgress)

\* one DeletionQueue under arbitrary push_function and flush calls
SpecDQ == Init /\ [][NextDQ]_vars

\* one image taken through transition(A, B) and transition(B, A)
SpecTI == Init /\ [][NextTI]_vars

\* ------------------------------------------------------------ properties
\* where the CPU is inside draw()
DrawPCs ==
    {"wait", "flush", "resetFence", "acquire", "resetCmd", "begin", "record",
     "end", "submit", "present", "incr"}

\* a submission the GPU has not finished
InFlight == {"queued", "executing"}

NoDuplicates(q) == \A j, k \in 1 .. Len(q) : j # k => q[j] # q[k]

\* C1: a flush runs every deletor pushed since the previous flush exactly
\* once, the last pushed first. The n-th pushed deletor is named n, so the
\* run of a flush that found the pushes prevMark+1 .. lastMark must be
\* lastMark, lastMark-1, .., prevMark+1.
C1_FlushRunsReversePushOrder ==
    nFlushed > 0 =>
        /\ Len(lastRun) = lastMark - prevMark
        /\ \A k \in 1 .. Len(lastRun) : lastRun[k] = lastMark - k + 1

\* C1 witness: a flush has run three or more deletors
C1_Witness == nFlushed > 0 /\ Len(lastRun) >= 3

\* C2: flush is idempotent. While nothing was pushed since the last flush
\* the queue is empty; a flush that found nothing pushed since the flush
\* before it (or since construction) ran no deletor; and no deletor is ever
\* run twice.
C2_FlushIdempotent ==
    /\ (nFlushed > 0 /\ lastMark = nPushed) => deletors = <<>>
    /\ (nFlushed > 0 /\ prevMark = lastMark) => lastRun = <<>>
    /\ NoDuplicates(executed)

\* C2 witness: a flush that ran deletors was followed at once by another
C2_Witness ==
    /\ nFlushed = 2
    /\ prevMark = lastMark
    /\ lastMark = nPushed
    /\ Len(executed) >= 2

\* C3: from the reset of the current slot's command buffer to the end of
\* its recording, the fence wait of this draw() was on this slot and
\* succeeded, and the slot's previous submission is not in flight (its
\* command buffer is not pending).
C3_NoRecordingWhilePending ==
    pc \in {"resetCmd", "begin", "record", "end"} =>
        /\ waited = get_current_frame
        /\ work[get_current_frame] \notin InFlight
        /\ cmd[get_current_frame] # "pending"

\* C3 witness: frame 2 records into slot 0 again, frame 0's submission done,
\* while frame 1's submission is still in flight
C3_Witness ==
    /\ pc = "record"
    /\ _frameNumber = 2
    /\ work[0] = "done"
    /\ work[1] \in InFlight

\* C4: when draw() is about to flush the current slot's DeletionQueue, the
\* wait on that slot's fence has succeeded in this draw(), the fence is
\* signalled and no submission of the slot is in flight.
C4_FlushAfterFenceWait ==
    pc = "flush" =>
        /\ waited = get_current_frame
        /\ fence[get_current_frame] = "signaled"
        /\ work[get_current_frame] \notin InFlight

\* C4 witness: the flush of a slot that has been submitted before
C4_Witness ==
    /\ pc = "flush"
    /\ _frameNumber >= FRAME_OVERLAP
    /\ work[get_current_frame] = "done"

\* C5: a submission in flight waits on the semaphore that the acquisition
\* of the image it writes signals, and while the GPU executes it that image
\* is available (the presentation engine has let go of it).
C5_RenderAfterImageAvailable ==
    \A s \in Slots :
        /\ work[s] \in InFlight => sub[s].wait = acq[sub[s].image]
        /\ work[s] = "executing" => img[sub[s].image] = "ready"

\* C5 witness: the GPU executes the submission of a later frame
C5_Witness ==
    \E s \in Slots : work[s] = "executing" /\ _frameNumber >= 1

\* C6: whenever the presentation engine processes a present request, the
\* rendering of the image it presents has completed, and the semaphore the
\* request waited on is the one a submission writing that image signals.
C6_PresentAfterRender ==
    [][PE_Present =>
        /\ rendered[Head(presQ).image]
        /\ Head(presQ).wait = sig[Head(presQ).image]]_vars

\* C6 witness: the first frame's image has been rendered and presented
C6_Witness ==
    /\ _frameNumber >= 1
    /\ presQ = <<>>
    /\ rendered[0]
    /\ img[0] = "free"

\* C7 (as claimed): after an out-of-date or suboptimal acquisition the
\* process is still running, the swapchain has been rebuilt and draw() is
\* back at the acquisition of the same frame.
C7_RebuildOnOutOfDate ==
    acquireResult \in {"VK_ERROR_OUT_OF_DATE_KHR", "VK_SUBOPTIMAL_KHR"} =>
        /\ pc = "acquire"
        /\ _swapchain \in live
        /\ _swapchain # Handle("swapchain", initCount, 0)

\* C8: while stop_rendering is set no step enters or continues draw() and
\* _frameNumber does not change; and the step run() takes after polling
\* with stop_rendering clear is the call of draw().
C8_SuspendedSkipsDraw ==
    [][/\ stop_rendering => (pc' \notin DrawPCs /\ _frameNumber' = _frameNumber)
       /\ (pc = "check" /\ ~stop_rendering /\ pc' # pc) => pc' = "wait"]_vars

\* C8 witness: a suspended iteration has gone back to the loop head after
\* frames were drawn
C8_Witness ==
    /\ pc = "loop"
    /\ stop_rendering
    /\ ~bQuit
    /\ _frameNumber >= 1

\* the position of handle h in the destroy log (0 when it is not there)
DestroyedAt(h) ==
    IF h \in Range(destroyLog)
        THEN CHOOSE k \in 1 .. Len(destroyLog) : destroyLog[k] = h
        ELSE 0

\* C9 (as claimed): every view of a chain is destroyed before the chain
C9_ViewsBeforeChain ==
    \A g \in 1 .. MaxInits :
        DestroyedAt(Handle("swapchain", g, 0)) # 0 =>
            \A i \in Images :
                /\ DestroyedAt(Handle("view", g, i)) # 0
                /\ DestroyedAt(Handle("view", g, i))
                     < DestroyedAt(Handle("swapchain", g, 0))

\* the handles the engine holds in its swapchain state
HeldSwapchainHandles ==
    {_swapchain} \cup Range(_swapchainImages) \cup Range(_swapchainImageViews)

\* C10 (as claimed): every handle in the swapchain state is absent or
\* refers to a live object
C10_NoStaleHandles ==
    \A h \in HeldSwapchainHandles : h = NullHandle \/ h \in live

\* C10 (amended): once destroy_swapchain has returned, none of the handles
\* the engine still holds refers to a live object (chain, images and every
\* view are gone); from create_swapchain until then all of them are live.
C10_DestroyedChainFullyDead ==
    initCount > 0 =>
        IF _swapchain \in Range(destroyLog)
            THEN /\ HeldSwapchainHandles \cap live = {}
                 /\ Range(_swapchainImageViews) \subseteq Range(destroyLog)
            ELSE HeldSwapchainHandles \subseteq live

\* C10 witness: a chain was created, destroyed, and a second one created
C10_Witness ==
    /\ initCount = 2
    /\ Handle("swapchain", 1, 0) \in Range(destroyLog)
    /\ Handle("swapchain", 1, 0) \notin live
    /\ _swapchain = Handle("swapchain", 2, 0)
    /\ HeldSwapchainHandles \subseteq live

\* the destroy calls appended to the log by the step being taken
NewDestroys == SubSeq(destroyLog', Len(destroyLog) + 1, Len(destroyLog'))

\* the first position of handle h in the sequence of calls q (0: not there)
PosIn(h, q) ==
    IF h \in Range(q) THEN CHOOSE k \in 1 .. Len(q) :
                               q[k] = h /\ \A j \in 1 .. (k - 1) : q[j] # h
                      ELSE 0

\* what cleanup destroys for each frame slot
FrameObjects(g) == init_commands_objects(g) \cup init_sync_objects(g)

\* what the deletors of the engine-wide queue destroy
MainQueueObjects(g) ==
    {Handle("allocator", g, 0), Handle("drawImageView", g, 0),
     Handle("drawImage", g, 0)}

\* what cleanup destroys after the queues
LateObjects(g) ==
    {Handle("swapchain", g, 0), Handle("surface", g, 0),
     Handle("device", g, 0), Handle("instance", g, 0)}

\* C11: whenever the cleanup() of an initialized engine (init() completed,
\* no cleanup() since) destroys anything, no submission and no present
\* request is outstanding at that moment (the idle wait has returned); its
\* calls destroy every slot's pool, fence and semaphores, then what the
\* engine-wide DeletionQueue holds, and all of these before the swapchain,
\* the surface, the device and the instance; and every DeletionQueue is
\* empty afterwards.
C11_CleanupWaitsThenDestroysInOrder ==
    [][(destroyLog' # destroyLog /\ loadedEngine) =>
        /\ pc = "main"
        /\ cleanupCount' = cleanupCount + 1
        /\ \A s \in Slots : work[s] \notin InFlight
        /\ presQ = <<>>
        /\ \A e \in FrameObjects(initCount), m \in MainQueueObjects(initCount) :
              /\ PosIn(e, NewDestroys) > 0
              /\ PosIn(e, NewDestroys) < PosIn(m, NewDestroys)
        /\ \A m \in MainQueueObjects(initCount), l \in LateObjects(initCount) :
              /\ PosIn(m, NewDestroys) > 0
              /\ PosIn(m, NewDestroys) < PosIn(l, NewDestroys)
        /\ _mainDeletionQueue' = <<>>
        /\ \A s \in Slots : _deletionQueue'[s] = <<>>]_vars

\* C11 witness: cleanup() has run once after frames were drawn
C11_Witness ==
    /\ pc = "main"
    /\ cleanupCount = 1
    /\ _frameNumber >= 2
    /\ Handle("device", 1, 0) \in Range(destroyLog)
    /\ Handle("commandPool", 1, 0) \in Range(destroyLog)

\* C12 (as claimed): no object is destroyed twice, whatever sequence of
\* cleanup() calls is made
C12_NoDoubleDestroy == NoDuplicates(destroyLog)

C14_TimeoutIsFatal ==
    [][/\ (pc = "wait" /\ fence[get_current_frame] # "signaled" /\ pc' # pc) =>
            /\ pc' = "aborted"
            /\ UNCHANGED <<_deletionQueue, destroyLog, fence, cmd, work, sub,
                           presQ, _frameNumber>>
       /\ (pc = "acquire" /\ acquireResult' = "VK_TIMEOUT") =>
            /\ pc' = "aborted"
            /\ UNCHANGED <<_deletionQueue, destroyLog, fence, cmd, work, sub,
                           presQ, _frameNumber>>
       /\ (pc \in Stopped) =>
            UNCHANGED <<pc, _deletionQueue, destroyLog, fence, cmd, work, sub,
                        presQ, _frameNumber>>]_vars

\* C14 witness: an acquisition has timed out (every image is held) and the
\* process has ended with the frame's fence reset and nothing submitted
C14_Witness ==
    /\ pc = "aborted"
    /\ acquireResult = "VK_TIMEOUT"
    /\ \A i \in Images : img[i] # "free"
    /\ fence[get_current_frame] = "unsignaled"
    /\ work[get_current_frame] \notin InFlight

\* C15: outside init() and cleanup() nothing changes the engine-wide
\* DeletionQueue or destroys what its deletors free; it is emptied only by
\* cleanup(), with no submission and no present request outstanding; and a
\* step of draw() changes no DeletionQueue but the current slot's.
C15_MainQueueOnlyAtShutdown ==
    [][/\ (pc # "main") =>
            /\ _mainDeletionQueue' = _mainDeletionQueue
            /\ \A m \in MainQueueObjects(initCount) : (m \in live') <=> (m \in live)
       /\ (_mainDeletionQueue # <<>> /\ _mainDeletionQueue' = <<>>) =>
            /\ pc = "main"
            /\ cleanupCount' = cleanupCount + 1
            /\ \A s \in Slots : work[s] \notin InFlight
            /\ presQ = <<>>
       /\ \A s \in Slots :
            (pc \in DrawPCs /\ _deletionQueue'[s] # _deletionQueue[s]) =>
                (pc = "flush" /\ s = get_current_frame)]_vars

\* C15 witness: frames were drawn, a suspended iteration has passed, and the
\* engine-wide queue still holds both deletors with their objects alive
C15_Witness ==
    /\ pc = "loop"
    /\ stop_rendering
    /\ _frameNumber >= 2
    /\ Len(_mainDeletionQueue) = 2
    /\ MainQueueObjects(initCount) \subseteq live

\* C16: at the head of draw() the CPU gets past the fence wait exactly when
\* the fence of the slot it is about to reuse is signalled, whatever the
\* state of the other slot's fence and submission.
C16_WaitsOnlyOnOwnFence ==
    pc = "wait" =>
        ((ENABLED (draw_WaitFence /\ pc' = "flush"))
            <=> fence[get_current_frame] = "signaled")

\* C16 witness: the CPU records frame 1 into slot 1 while the GPU is still
\* executing what frame 0 submitted from slot 0
C16_Witness ==
    /\ pc = "record"
    /\ _frameNumber = 1
    /\ cmd[1] = "recording"
    /\ work[0] = "executing"
    /\ fence[0] = "unsignaled"

RECURSIVE layout_after(_, _, _)
layout_after(cmds, image, n) ==
    IF n = 0 THEN "UNDEFINED"
    ELSE IF cmds[n].op = "barrier" /\ cmds[n].image = image THEN cmds[n].new
    ELSE layout_after(cmds, image, n - 1)

\* C18: in every recorded command buffer, each barrier's old layout is the
\* layout the earlier commands of the buffer left its image in (UNDEFINED at
\* the image's first use); the clear names GENERAL and finds the draw image
\* in GENERAL; the copy finds the draw image in TRANSFER_SRC_OPTIMAL and the
\* swapchain image in TRANSFER_DST_OPTIMAL; the copy's destination is the
\* image acquired for the frame; and at the end of the buffer that image is
\* in PRESENT_SRC_KHR.
C18_RecordedLayoutsConsistent ==
    \A s \in Slots :
        LET c == recorded[s]
        IN  c # <<>> =>
            /\ \A k \in 1 .. Len(c) :
                /\ c[k].op = "barrier" =>
                      c[k].old = layout_after(c, c[k].image, k - 1)
                /\ c[k].op = "clear" =>
                      /\ c[k].old = "GENERAL"
                      /\ layout_after(c, c[k].image, k - 1) = "GENERAL"
                /\ c[k].op = "copy" =>
                      /\ layout_after(c, c[k].image, k - 1) = "TRANSFER_SRC_OPTIMAL"
                      /\ layout_after(c, c[k].image2, k - 1) = "TRANSFER_DST_OPTIMAL"
                      /\ layout_after(c, c[k].image2, Len(c)) = "PRESENT_SRC_KHR"
                      /\ c[k].image2 \in Range(_swapchainImages)
                      /\ (s = get_current_frame /\ pc \in {"end", "submit", "present"})
                            => c[k].image2 = _swapchainImages[swapchainImageIndex + 1]
            /\ \E k \in 1 .. Len(c) : c[k].op = "clear"
            /\ \E k \in 1 .. Len(c) : c[k].op = "copy"

\* C18 witness: frame 3 has been recorded into slot 1 for the third image,
\* with the recording of frame 2 still in slot 0
C18_Witness ==
    /\ pc = "end"
    /\ _frameNumber = 3
    /\ swapchainImageIndex = 2
    /\ Len(recorded[1]) = 6
    /\ recorded[0] # <<>>

\* the steps of one draw(), in program order, and where it returns to
DrawOrder ==
    <<"wait", "flush", "resetFence", "acquire", "resetCmd", "begin", "record",
      "end", "submit", "present", "incr", "loop">>

\* C19: inside draw() the CPU goes from each step to the next in program
\* order (or the process ends), draw() is entered only from run()'s loop,
\* the submission names the current slot's fence, and _frameNumber changes
\* only in the step after the present call, by exactly one, when the present
\* request for the frame's image has been issued.
C19_DrawStepOrder ==
    [][/\ (pc \in DrawPCs /\ pc' # pc) =>
            pc' \in {DrawOrder[PosIn(pc, DrawOrder) + 1], "aborted"}
       /\ (pc' = "wait" /\ pc # "wait") => pc = "check"
       /\ (pc = "submit" /\ pc' = "present") =>
            /\ sub'[get_current_frame].fence = get_current_frame
            /\ work'[get_current_frame] = "queued"
       /\ (_frameNumber' # _frameNumber) =>
            /\ pc = "incr"
            /\ _frameNumber' = _frameNumber + 1
            /\ \/ \E k \in 1 .. Len(presQ) : presQ[k].image = swapchainImageIndex
               \/ img[swapchainImageIndex] = "free"]_vars

\* C19 witness: two iterations of draw() have completed and the present
\* request of the second is still waiting
C19_Witness ==
    /\ pc = "loop"
    /\ _frameNumber = 2
    /\ ~stop_rendering
    /\ Len(presQ) >= 1
    /\ work[1] \in InFlight

\* C20: a step of draw() for frame f leaves the fence, the command buffer
\* and its contents, the submission, the semaphores and the DeletionQueue of
\* the other slot as they are; the acquisition, the submission and the
\* present request name only the semaphores and the fence of slot f mod 2;
\* and the next frame uses the other slot.
C20_SlotIsolation ==
    [][/\ (pc \in DrawPCs /\ pc' # pc) =>
            LET s == get_current_frame
                o == (get_current_frame + 1) % FRAME_OVERLAP
            IN  /\ fence'[o] = fence[o]
                /\ cmd'[o] = cmd[o]
                /\ recorded'[o] = recorded[o]
                /\ work'[o] = work[o]
                /\ sub'[o] = sub[o]
                /\ _deletionQueue'[o] = _deletionQueue[o]
                /\ semaphore'[<<"swapchain", o>>] = semaphore[<<"swapchain", o>>]
                /\ semaphore'[<<"render", o>>] = semaphore[<<"render", o>>]
                /\ \A i \in Images : acq'[i] # acq[i] => acq'[i] = <<"swapchain", s>>
                /\ (pc = "submit" /\ pc' = "present") =>
                      /\ sub'[s].wait = <<"swapchain", s>>
                      /\ sub'[s].signal = <<"render", s>>
                      /\ sub'[s].fence = s
                /\ Len(presQ') > Len(presQ) =>
                      presQ'[Len(presQ')].wait = <<"render", s>>
       /\ (_frameNumber' # _frameNumber) =>
            (_frameNumber' % FRAME_OVERLAP) # (_frameNumber % FRAME_OVERLAP)]_vars

\* C20 witness: frame 3 is about to be submitted from slot 1 while the
\* submission of frame 2 from slot 0 is in flight
C20_Witness ==
    /\ pc = "submit"
    /\ _frameNumber = 3
    /\ work[0] \in InFlight
    /\ cmd[0] = "pending"
    /\ cmd[1] = "executable"

\* the state of a frame slot: Recording from vkBeginCommandBuffer to the
\* submission, Submitted while the command buffer is pending on the GPU,
\* Idle otherwise
SlotState(s) ==
    IF cmd[s] \in {"recording", "executable"} THEN "Recording"
    ELSE IF cmd[s] = "pending" THEN "Submitted"
    ELSE "Idle"

\* C21: a slot changes state only Idle -> Recording, Recording -> Submitted
\* and Submitted -> Idle; it leaves Submitted only in the step in which the
\* GPU completes its submission and signals its fence; while it is Submitted
\* no step of the CPU resets, records or submits its command buffer; and the
\* CPU is past the fence wait of a slot only when that slot is not Submitted.
C21_SlotCycle ==
    [][\A s \in Slots :
        /\ SlotState(s)' # SlotState(s) =>
              \/ SlotState(s) = "Idle" /\ SlotState(s)' = "Recording"
              \/ SlotState(s) = "Recording" /\ SlotState(s)' = "Submitted"
              \/ /\ SlotState(s) = "Submitted" /\ SlotState(s)' = "Idle"
                 /\ work[s] = "executing" /\ work'[s] = "done"
                 /\ fence'[s] = "signaled"
        /\ SlotState(s) = "Submitted" =>
              /\ recorded'[s] = recorded[s]
              /\ sub'[s] = sub[s]
              /\ cmd'[s] \in {"pending", "invalid"}
        /\ (s = get_current_frame /\ pc' \in (DrawPCs \ {"wait"})) =>
              (pc' = "incr" \/ pc' = "present" \/ SlotState(s)' # "Submitted")]_vars

\* C21 witness: slot 0 has gone round the cycle and is Submitted for the
\* second time, slot 1 is back to Idle after its first submission
C21_Witness ==
    /\ pc = "present"
    /\ _frameNumber = 2
    /\ SlotState(0) = "Submitted"
    /\ SlotState(1) = "Idle"
    /\ work[1] = "done"

\* how many times handle h was destroyed
DestroyCount(h) ==
    Cardinality({k \in 1 .. Len(destroyLog) : destroyLog[k] = h})

\* C22: the draw image view, the draw image and the allocator of an engine
\* are destroyed when, and only when, its device is (at cleanup, never while
\* frames are drawn); each of the three exactly once, however often cleanup()
\* runs; the view before the image, the image before the allocator and the
\* allocator before the device.
C22_DrawImageReleaseOrder ==
    \A g \in 1 .. MaxInits :
        LET view == Handle("drawImageView", g, 0)
            image == Handle("drawImage", g, 0)
            allocator == Handle("allocator", g, 0)
            device == Handle("device", g, 0)
        IN  IF device \in Range(destroyLog)
                THEN /\ DestroyCount(view) = 1
                     /\ DestroyCount(image) = 1
                     /\ DestroyCount(allocator) = 1
                     /\ PosIn(view, destroyLog) < PosIn(image, destroyLog)
                     /\ PosIn(image, destroyLog) < PosIn(allocator, destroyLog)
                     /\ PosIn(allocator, destroyLog) < PosIn(device, destroyLog)
                ELSE /\ {view, image, allocator} \cap Range(destroyLog) = {}
                     /\ g <= initCount => {view, image, allocator} \subseteq live

\* C22 witness: an engine that drew frames was cleaned up, twice, and its
\* draw image and allocator are gone
C22_Witness ==
    /\ pc = "main"
    /\ initCount = 1
    /\ cleanupCount = 2
    /\ _frameNumber >= 2
    /\ Handle("drawImage", 1, 0) \in Range(destroyLog)
    /\ Handle("allocator", 1, 0) \notin live

\* the images the application has acquired and not yet handed to a present
\* request
Unpresented ==
    {i \in Images : /\ img[i] # "free"
                    /\ \A k \in 1 .. Len(presQ) : presQ[k].image # i}

\* the swapchain images the commands in sequence q name
ImagesNamed(q) ==
    {h \in Range(_swapchainImages) :
        \E k \in 1 .. Len(q) : q[k].image = h \/ q[k].image2 = h}

\* C23: while the process runs, the only image acquired and not yet handed
\* to a present request is the one the draw() in progress acquired: there is
\* exactly that one between the acquisition and the present call and none
\* before the acquisition, after the present call or outside draw(); the
\* recording and the submission name that image and no other swapchain
\* image; the one present request of the draw() names it; and no image has two
\* present requests queued.
C23_AcquiredImagePresentedOnce ==
    [][/\ pc' \notin Stopped =>
            /\ pc' \in {"resetCmd", "begin", "record", "end", "submit", "present"}
                  => Unpresented' = {swapchainImageIndex'}
            /\ pc' \notin {"resetCmd", "begin", "record", "end", "submit", "present"}
                  => Unpresented' = {}
            /\ \A j, k \in 1 .. Len(presQ') :
                  presQ'[j].image = presQ'[k].image => j = k
       /\ (pc = "record" /\ pc' = "end") =>
            ImagesNamed(recorded'[get_current_frame])
                = {_swapchainImages[swapchainImageIndex + 1]}
       /\ (pc = "submit" /\ pc' = "present") =>
            sub'[get_current_frame].image = swapchainImageIndex
       /\ Len(presQ') > Len(presQ) =>
            /\ pc = "present"
            /\ Len(presQ') = Len(presQ) + 1
            /\ presQ'[Len(presQ')].image = swapchainImageIndex
            /\ swapchainImageIndex \in Unpresented]_vars

\* C23 witness: the third frame has presented the image it acquired while
\* earlier present requests are still queued
C23_Witness ==
    /\ pc = "incr"
    /\ _frameNumber = 2
    /\ Len(presQ) >= 2
    /\ presQ[Len(presQ)].image = swapchainImageIndex
    /\ Unpresented = {}

\* a submission that will signal the fence of slot s is outstanding
SubmissionPending(s) == work[s] \in InFlight /\ sub[s].fence = s

\* where draw() is between vkResetFences and vkQueueSubmit2
ResetToSubmitPCs == {"acquire", "resetCmd", "begin", "record", "end", "submit"}

\* C24: while the process runs, a fence that is not signalled has a pending
\* submission tied to it, or belongs to the current slot of a draw() that is
\* between its reset and its submission; so when the CPU starts waiting on a
\* slot's fence, the fence is signalled or such a submission is pending. And
\* on a device that makes progress, a fence the CPU waits on is eventually
\* signalled (unless the wait has ended first).
C24_FenceWaitReturns ==
    /\ [](pc \notin Stopped =>
            \A s \in Slots :
                fence[s] = "unsignaled" =>
                    \/ SubmissionPending(s)
                    \/ s = get_current_frame /\ pc \in ResetToSubmitPCs)
    /\ [](pc = "wait" =>
            \/ fence[get_current_frame] = "signaled"
            \/ SubmissionPending(get_current_frame))
    /\ (pc = "wait" /\ fence[get_current_frame] # "signaled")
          ~> (pc # "wait" \/ fence[get_current_frame] = "signaled")

\* C24 witness: the CPU starts the wait of the third frame on the fence of
\* slot 0, which is reset, while the first frame's submission has not even
\* been started
C24_Witness ==
    /\ pc = "wait"
    /\ _frameNumber = 2
    /\ fence[0] = "unsignaled"
    /\ work[0] = "queued"
    /\ sub[0].fence = 0

\* C25 (as claimed): a submission is never given, as the semaphore it
\* signals, a semaphore that a queued present request still waits on
C25_RenderSemaphoreNotReused ==
    [][(pc = "submit" /\ pc' = "present") =>
          \A k \in 1 .. Len(presQ) :
              presQ[k].wait # sub'[get_current_frame].signal]_vars

\* where the CPU is inside run(), draw() included
RunPCs == {"loop", "poll", "check"} \cup DrawPCs

\* C26 (as claimed): once a quit event has been processed, the CPU is not
\* inside draw()
C26_NoFrameAfterQuit == bQuit => pc \notin DrawPCs

\* C26 (amended): a quit event does not end the iteration in which it is
\* processed, it ends the loop at the next test of the loop condition. bQuit
\* stays set for as long as run() lasts; with bQuit set the step at the head
\* of the loop returns from run(); draw() is entered only from the check that
\* follows the polling of events, and polling is entered only from the head
\* of the loop with bQuit clear. So after a quit event at most the frame of
\* the current iteration is drawn (none if rendering is suspended) and no
\* further iteration starts.
C26_QuitEndsLoopAtNextTest ==
    [][/\ (bQuit /\ pc \in RunPCs) => bQuit'
       /\ (pc = "loop" /\ bQuit) => pc' \in {"loop", "main"}
       /\ (pc' = "main" /\ pc \in RunPCs) => (pc = "loop" /\ bQuit)
       /\ (pc' = "poll" /\ pc # "poll") => (pc = "loop" /\ ~bQuit)
       /\ (pc' = "check" /\ pc # "check") => pc = "poll"
       /\ (pc' = "wait" /\ pc # "wait") => (pc = "check" /\ ~stop_rendering)
       /\ (pc = "check" /\ stop_rendering) => pc' \in {"check", "loop"}]_vars

\* C26 witness: the second frame is being drawn although the quit event was
\* processed before it began
C26_Witness ==
    /\ pc = "submit"
    /\ bQuit
    /\ _frameNumber = 1

====
